---- MODULE Spec2Model ----
(***************************************************************************)
(* Model of LoginComponent (composer-playground, app/login) and of the     *)
(* identity card aggregation it performs in loadIdentityCards.             *)
(*                                                                         *)
(* Encoding of JavaScript values                                           *)
(*   string        a sequence of UTF-16 code units (here: ASCII codes)     *)
(*   Map           a sequence of <<key, value>> entries in insertion order *)
(*   Array         a sequence                                              *)
(*   a value that may be undefined, a string or an array of strings is a   *)
(*   record [t, s, a]: t is the type tag, s the string, a the array        *)
(***************************************************************************)
EXTENDS Integers, Sequences, FiniteSets

\* Largest number of cards the identity card store holds.
MaxCards == 3

(***************************************************************************)
(* JavaScript values and operators                                         *)
(***************************************************************************)
JSUndefined == [t |-> "undefined", s |-> <<>>, a |-> <<>>]
JSString(str) == [t |-> "string", s |-> str, a |-> <<>>]
JSArray(arr) == [t |-> "array", s |-> <<>>, a |-> arr]

\* a < b on strings: lexicographic on code units, a proper prefix is smaller.
StrLt(a, b) ==
    \E i \in 1..Len(b) :
        /\ i <= Len(a) + 1
        /\ \A k \in 1..(i - 1) : a[k] = b[k]
        /\ (i = Len(a) + 1 \/ a[i] < b[i])

\* Array.prototype.join with the default separator "," (code unit 44).
RECURSIVE Join(_)
Join(arr) ==
    IF arr = <<>> THEN <<>>
    ELSE IF Len(arr) = 1 THEN arr[1]
    ELSE arr[1] \o <<44>> \o Join(Tail(arr))

\* ToBoolean: undefined and "" are falsy, every array is truthy.
Truthy(x) == x.t = "array" \/ (x.t = "string" /\ x.s # <<>>)

\* ToPrimitive of a string or an array: an array is joined with ",".
ToPrimitive(x) == IF x.t = "array" THEN Join(x.a) ELSE x.s

\* x < y and x > y of two strings or arrays.
JSLess(x, y) == StrLt(ToPrimitive(x), ToPrimitive(y))

\* Map operations on sequences of <<key, value>> entries.
MapHas(m, k) == \E i \in DOMAIN m : m[i][1] = k
MapGet(m, k) == m[CHOOSE i \in DOMAIN m : m[i][1] = k][2]
MapSet(m, k, v) ==
    IF MapHas(m, k)
    THEN [i \in DOMAIN m |-> IF m[i][1] = k THEN <<k, v>> ELSE m[i]]
    ELSE Append(m, <<k, v>>)
MapKeys(m) == [i \in DOMAIN m |-> m[i][1]]

\* Array.prototype.indexOf, 0-based, -1 when x is not an element.
IndexOf(arr, x) ==
    IF \E i \in DOMAIN arr : arr[i] = x
    THEN (CHOOSE i \in DOMAIN arr :
              arr[i] = x /\ \A k \in 1..(i - 1) : arr[k] # x) - 1
    ELSE -1

\* arr[index] with a 0-based index: undefined outside the array.
ElementAt(arr, index) ==
    IF index >= 0 /\ index < Len(arr) THEN arr[index + 1] ELSE JSUndefined

\* Array.prototype.splice(start, 1): a negative start counts from the end.
Splice(arr, start) ==
    LET len == Len(arr)
        from == IF start < 0
                THEN (IF len + start < 0 THEN 0 ELSE len + start)
                ELSE (IF start > len THEN len ELSE start)
    IN  [i \in 1..(IF from < len THEN len - 1 ELSE len) |->
            IF i <= from THEN arr[i] ELSE arr[i + 1]]

\* Array.prototype.unshift(x).
Unshift(arr, x) == <<x>> \o arr

\* All arrangements of the elements of arr.
RECURSIVE Arrangements(_)
Arrangements(arr) ==
    IF arr = <<>> THEN { <<>> }
    ELSE UNION { { <<arr[i]>> \o rest :
                     rest \in Arrangements([k \in 1..(Len(arr) - 1) |->
                                 IF k < i THEN arr[k] ELSE arr[k + 1]]) } :
                 i \in DOMAIN arr }

\* SortCompare of Array.prototype.sort: the comparator's result goes through
\* ToNumber, and NaN (from undefined) counts as +0. A comparator result is
\* <<n>> for the number n and <<>> for undefined.
SortCompare(v) == IF v = <<>> THEN 0 ELSE v[1]

\* The pairs of elements of arr, the arguments a comparator can be given.
Pairs(arr) == { <<arr[i], arr[j]>> : i, j \in DOMAIN arr }

\* Array.prototype.sort(comparefn) with a consistent comparator, comparefn
\* being the function from the pairs of arr to the comparator's results: the
\* result is an arrangement in which no element is followed by one that
\* compares smaller; the order of elements that compare equal is left to the
\* engine.
Sort(arr, comparefn) ==
    { p \in Arrangements(arr) :
        \A i, j \in DOMAIN p :
            i < j => SortCompare(comparefn[<<p[i], p[j]>>]) <= 0 }

(***************************************************************************)
(* Identity cards                                                          *)
(***************************************************************************)
\* "web", "hlfv1", "hlf"
TypeWeb == <<119, 101, 98>>
TypeHlfv1 == <<104, 108, 102, 118, 49>>
TypeHlf == <<104, 108, 102>>
\* "$default"
NameDefault == <<36, 100, 101, 102, 97, 117, 108, 116>>
\* "PeerAdmin", "ChannelAdmin"
PeerAdmin == <<80, 101, 101, 114, 65, 100, 109, 105, 110>>
ChannelAdmin == <<67, 104, 97, 110, 110, 101, 108, 65, 100, 109, 105, 110>>

\* The literal 'web-$default'.
WebDefault == <<119, 101, 98, 45, 36, 100, 101, 102, 97, 117, 108, 116>>

\* IdentityCardService.getQualifiedProfileName: the profile's type, "-",
\* the profile's name.
getQualifiedProfileName(connectionProfile) ==
    connectionProfile.type \o <<45>> \o connectionProfile.name

\* What getConnectionProfile returns for a card without connection profile
\* (undefined): no profile reference can be derived from it.
NoProfile == [type |-> <<>>, name |-> <<>>]

IdCard(profile, businessNetwork, roles, name) ==
    [connectionProfile |-> profile, businessNetworkName |-> businessNetwork,
     roles |-> roles, name |-> name]

\* Connection profiles: the default web profile and four others, named
\* "#1", "A", "A" (of another type) and "a".
Profiles ==
    { [type |-> TypeWeb, name |-> NameDefault],
      [type |-> TypeHlfv1, name |-> <<35, 49>>],
      [type |-> TypeHlfv1, name |-> <<65>>],
      [type |-> TypeHlf, name |-> <<65>>],
      [type |-> TypeHlfv1, name |-> <<97>>] }

\* "A", the name of the connection profile of the cards that differ in
\* something else; "n", their business network name.
ProfileA == [type |-> TypeHlfv1, name |-> <<65>>]
NetworkN == JSString(<<110>>)
CardNames == { JSString(<<97>>), JSString(<<98>>) }

\* Cards that differ in their connection profile.
ProfilePool ==
    { IdCard(p, NetworkN, JSArray(<<>>), JSString(<<97>>)) : p \in Profiles }

\* Cards of one connection profile that differ in their business network
\* name (undefined, "", "B", "a") and their name.
NetworkPool ==
    { IdCard(ProfileA, b, JSArray(<<>>), n) :
        b \in { JSUndefined, JSString(<<>>), JSString(<<66>>),
                JSString(<<97>>) },
        n \in CardNames }

\* Cards of one connection profile and business network that differ in their
\* roles and their name.
RolesPool ==
    { IdCard(ProfileA, NetworkN, r, n) :
        r \in { JSUndefined, JSArray(<<>>), JSArray(<<PeerAdmin>>),
                JSArray(<<ChannelAdmin>>),
                JSArray(<<PeerAdmin, ChannelAdmin>>) },
        n \in CardNames }

\* Cards of one connection profile that differ in business network name and
\* roles.
MixedPool ==
    { IdCard(ProfileA, b, r, JSString(<<97>>)) :
        b \in { JSUndefined, JSString(<<97>>) },
        r \in { JSUndefined, JSArray(<<PeerAdmin>>) } }

Pools == { ProfilePool, NetworkPool, RolesPool, MixedPool }

VARIABLES
    pool,                   \* the cards that can be imported
    identityCards,          \* IdentityCardService: Map cardRef -> IdCard
    idCards,                \* LoginComponent.idCards
    connectionProfileNames, \* LoginComponent.connectionProfileNames
    connectionProfiles,     \* LoginComponent.connectionProfiles
    idCardRefs,             \* LoginComponent.idCardRefs
    connectionProfileRefs,  \* LoginComponent.connectionProfileRefs
    comparisons,            \* what sortIdCards returned to the last sort
    loadPromise,            \* the promise of the last loadIdentityCards
    engine,                 \* how Array.prototype.sort orders equal elements
    previous,               \* the fields as the last callback found them
    pending,                \* getIdentityCards promises not yet settled
    thrown,                 \* the exception of the last loadIdentityCards
    serviceCalls,           \* the calls made by the handler that ran last
    removing,               \* the removeIdentity in progress or run last
    showSubScreen,          \* LoginComponent.showSubScreen
    showDeployNetwork,      \* LoginComponent.showDeployNetwork
    creatingIdCard,         \* LoginComponent.creatingIdCard
    editingConnectionProfile, \* LoginComponent.editingConnectionProfile
    deploying,              \* the last canDeploy or deployNetwork
    changing,               \* the changeIdentity in progress or run last
    loggedIn,               \* IdentityService: what setLoggedIn was given
    route,                  \* Router: the commands of the last navigate
    scenario,               \* the steps of the feature scenario that runs
    position,               \* the number of its steps that have run
    caught,                 \* the errors the steps have caught
    verdict                 \* what the run of the scenario resolved with

\* The fields of LoginComponent that loadIdentityCards assigns.
fields == <<idCards, connectionProfileNames, connectionProfiles, idCardRefs,
            connectionProfileRefs>>

vars == <<pool, identityCards, idCards, connectionProfileNames,
          connectionProfiles, idCardRefs, connectionProfileRefs,
          comparisons, loadPromise, engine, previous, pending, thrown,
          serviceCalls, removing, showSubScreen, showDeployNetwork,
          creatingIdCard, editingConnectionProfile, deploying, changing,
          loggedIn, route, scenario, position, caught, verdict>>

\* The variables of changeIdentity, and those of the scenario runner.
login == <<changing, loggedIn, route>>
harness == <<scenario, position, caught, verdict>>

\* The fields of LoginComponent that tell which sub-screen is shown.
subScreen == <<showSubScreen, showDeployNetwork, creatingIdCard,
               editingConnectionProfile>>

\* Array.prototype.sort is a function of the array and the comparator: a
\* stable engine keeps the elements that compare equal in the order of the
\* array, the other one leaves them in the opposite order.
Engines == { "stable", "reversing" }

\* Array.prototype.sort as the engine runs it.
EngineSort(arr, comparefn) ==
    { p \in Sort(arr, comparefn) :
        \A i, j \in DOMAIN p :
            (/\ i < j
             /\ p[i] # p[j]
             /\ SortCompare(comparefn[<<p[i], p[j]>>]) = 0) =>
                IF engine = "stable"
                THEN IndexOf(arr, p[i]) < IndexOf(arr, p[j])
                ELSE IndexOf(arr, p[i]) > IndexOf(arr, p[j]) }

(***************************************************************************)
(* LoginComponent.sortBy and LoginComponent.sortIdCards                    *)
(***************************************************************************)
\* sortBy with the results of aName < bName and aName > bName exchanged.
sortByGreaterFirst(aName, bName) ==
    IF ~Truthy(aName) /\ ~Truthy(bName) THEN 0
    ELSE IF ~Truthy(aName) /\ Truthy(bName) THEN -1
    ELSE IF Truthy(aName) /\ ~Truthy(bName) THEN 1
    ELSE IF JSLess(aName, bName) THEN 1
    ELSE IF JSLess(bName, aName) THEN -1
    ELSE 0

sortBy(aName, bName) ==
    IF ~Truthy(aName) /\ ~Truthy(bName) THEN 0
    ELSE IF ~Truthy(aName) /\ Truthy(bName) THEN -1
    ELSE IF Truthy(aName) /\ ~Truthy(bName) THEN 1
    ELSE IF JSLess(aName, bName) THEN -1
    ELSE IF JSLess(bName, aName) THEN 1
    ELSE 0

\* sortIdCards without the comparison of the roles.
sortIdCardsWithoutRoles(store, a, b) ==
    LET cardA == MapGet(store, a)
        cardB == MapGet(store, b)
        byBusinessNetwork ==
            sortBy(cardA.businessNetworkName, cardB.businessNetworkName)
    IN  IF byBusinessNetwork # 0 THEN <<byBusinessNetwork>> ELSE <<>>

\* store is the Map of IdentityCardService, read with getIdentityCard.
\* The result is <<n>> for return n, <<>> when the function ends without a
\* return statement.
sortIdCards(store, a, b) ==
    LET cardA == MapGet(store, a)
        cardB == MapGet(store, b)
        byBusinessNetwork ==
            sortBy(cardA.businessNetworkName, cardB.businessNetworkName)
        byRoles == sortBy(cardA.roles, cardB.roles)
    IN  IF byBusinessNetwork # 0 THEN <<byBusinessNetwork>>
        ELSE IF byRoles # 0 THEN <<byRoles>>
        ELSE <<>>

(***************************************************************************)
(* LoginComponent.loadIdentityCards                                        *)
(***************************************************************************)
\* recordProfile with the negation of the test dropped.
recordProfileIfPresent(map, connectionProfileRef, value) ==
    IF MapHas(map, connectionProfileRef)
    THEN MapSet(map, connectionProfileRef, value)
    ELSE map

\* if (!map.has(ref)) { map.set(ref, value); }
recordProfile(map, connectionProfileRef, value) ==
    IF ~MapHas(map, connectionProfileRef)
    THEN MapSet(map, connectionProfileRef, value)
    ELSE map

\* mapCardRefs that records onto the stored connectionProfileNames and
\* connectionProfiles, not onto new Maps.
RECURSIVE mapCardRefsOntoStored(_, _)
mapCardRefsOntoStored(cards, i) ==
    IF i = 0 THEN [names |-> connectionProfileNames,
                   profiles |-> connectionProfiles, pairs |-> <<>>]
    ELSE LET prev == mapCardRefsOntoStored(cards, i - 1)
             cardRef == MapKeys(cards)[i]
             connectionProfile == MapGet(cards, cardRef).connectionProfile
             connectionProfileRef ==
                 getQualifiedProfileName(connectionProfile)
         IN  [names |-> recordProfile(prev.names, connectionProfileRef,
                                      connectionProfile.name),
              profiles |-> recordProfile(prev.profiles, connectionProfileRef,
                                         connectionProfile),
              pairs |-> Append(prev.pairs, <<connectionProfileRef, cardRef>>)]

\* The map callback run on the first i keys of cards: the names and the
\* profiles recorded, and the [connectionProfileRef, cardRef] pairs returned.
RECURSIVE mapCardRefs(_, _)
mapCardRefs(cards, i) ==
    IF i = 0 THEN [names |-> <<>>, profiles |-> <<>>, pairs |-> <<>>]
    ELSE LET prev == mapCardRefs(cards, i - 1)
             cardRef == MapKeys(cards)[i]
             connectionProfile == MapGet(cards, cardRef).connectionProfile
             connectionProfileRef ==
                 getQualifiedProfileName(connectionProfile)
         IN  [names |-> recordProfile(prev.names, connectionProfileRef,
                                      connectionProfile.name),
              profiles |-> recordProfile(prev.profiles, connectionProfileRef,
                                         connectionProfile),
              pairs |-> Append(prev.pairs, <<connectionProfileRef, cardRef>>)]

\* reduceCardRefs that sets the profile's list to the one card reference.
reduceCardRefsReplace(prev, cur) == MapSet(prev, cur[1], <<cur[2]>>)

\* The reduce callback: add the card reference to its profile's list.
reduceCardRefs(prev, cur) ==
    LET curCardRefs == IF MapHas(prev, cur[1]) THEN MapGet(prev, cur[1])
                       ELSE <<>>
    IN  MapSet(prev, cur[1], Append(curCardRefs, cur[2]))

\* reduce that starts from the stored idCardRefs, not from a new Map.
RECURSIVE reduceOntoStored(_, _)
reduceOntoStored(pairs, i) ==
    IF i = 0 THEN idCardRefs
    ELSE reduceCardRefs(reduceOntoStored(pairs, i - 1), pairs[i])

RECURSIVE reduce(_, _)
reduce(pairs, i) ==
    IF i = 0 THEN <<>> ELSE reduceCardRefs(reduce(pairs, i - 1), pairs[i])

\* newCardRefs.forEach(cardRefs.sort(sortIdCards)) on the first i entries:
\* the lists as the engine leaves them.
RECURSIVE sortCardRefs(_, _, _)
sortCardRefs(store, newCardRefs, i) ==
    IF i = 0 THEN { <<>> }
    ELSE LET comparefn == [p \in Pairs(newCardRefs[i][2]) |->
                              sortIdCards(store, p[1], p[2])]
         IN  { Append(m, <<newCardRefs[i][1], cardRefs>>) :
                 m \in sortCardRefs(store, newCardRefs, i - 1),
                 cardRefs \in EngineSort(newCardRefs[i][2], comparefn) }

\* compareProfiles with the two results exchanged.
compareProfilesReversed(names, a, b) ==
    LET aName == MapGet(names, a.s)
        bName == MapGet(names, b.s)
    IN  IF StrLt(aName, bName) THEN <<1>>
        ELSE IF StrLt(bName, aName) THEN <<-1>>
        ELSE <<>>

\* The comparator given to unsortedConnectionProfiles.sort.
compareProfiles(names, a, b) ==
    LET aName == MapGet(names, a.s)
        bName == MapGet(names, b.s)
    IN  IF StrLt(aName, bName) THEN <<-1>>
        ELSE IF StrLt(bName, aName) THEN <<1>>
        ELSE <<>>

\* orderProfiles that sorts every key, 'web-$default' like the others.
orderProfilesAllSorted(names) ==
    LET keys == MapKeys(names)
        unsortedConnectionProfiles == [i \in DOMAIN keys |-> JSString(keys[i])]
        comparefn ==
            [p \in Pairs(unsortedConnectionProfiles) |->
                LET aName == MapGet(names, p[1].s)
                    bName == MapGet(names, p[2].s)
                IN  IF StrLt(aName, bName) THEN <<-1>>
                    ELSE IF StrLt(bName, aName) THEN <<1>>
                    ELSE <<>>]
    IN  EngineSort(unsortedConnectionProfiles, comparefn)

\* The array connectionProfileRefs is set to, given the names recorded.
orderProfiles(names) ==
    LET keys == MapKeys(names)
        unsortedConnectionProfiles == [i \in DOMAIN keys |-> JSString(keys[i])]
        indexOfWeb == IndexOf(unsortedConnectionProfiles, JSString(WebDefault))
        webProfile == ElementAt(unsortedConnectionProfiles, indexOfWeb)
        spliced == Splice(unsortedConnectionProfiles, indexOfWeb)
        comparefn == [p \in Pairs(spliced) |->
                         compareProfiles(names, p[1], p[2])]
    IN  { Unshift(s, webProfile) : s \in EngineSort(spliced, comparefn) }

\* The calls of sortIdCards the sorts can make: any two card references of
\* one list.
sortCalls(store, newCardRefs) ==
    LET pairs == UNION { Pairs(newCardRefs[i][2]) : i \in DOMAIN newCardRefs }
    IN  [p \in pairs |-> sortIdCards(store, p[1], p[2])]

\* The results of the callback of loadIdentityCards on cards: what it
\* assigns to connectionProfileNames, idCardRefs and connectionProfileRefs.
aggregate(cards) ==
    LET mapped == mapCardRefs(cards, Len(cards))
        newCardRefs == reduce(mapped.pairs, Len(mapped.pairs))
    IN  { [profileNames |-> mapped.names, cardsByProfile |-> sortedCardRefs,
           profileOrder |-> sortedProfiles] :
            sortedCardRefs \in
                sortCardRefs(cards, newCardRefs, Len(newCardRefs)),
            sortedProfiles \in orderProfiles(mapped.names) }

\* A call of a collaborator: the function, the card reference given (0 when
\* there is none) and the value given ("" when there is none).
Call(fn, cardRef, value) == [fn |-> fn, cardRef |-> cardRef, value |-> value]

\* A value a dialog settles with: undefined, a boolean (n is 1 for true), a
\* number or an error with its message.
DialogUndefined == [t |-> "undefined", n |-> 0, s |-> ""]
DialogBoolean(b) == [t |-> "boolean", n |-> IF b THEN 1 ELSE 0, s |-> ""]
DialogNumber(n) == [t |-> "number", n |-> n, s |-> ""]
DialogError(message) == [t |-> "object", n |-> 0, s |-> message]

\* ToBoolean of such a value.
DialogTruthy(x) ==
    \/ x.t = "boolean" /\ x.n = 1
    \/ x.t = "number" /\ x.n # 0
    \/ x.t = "object"

\* No removeIdentity has been called.
NotRemoving ==
    [cardRef |-> 0, dialog |-> "none", value |-> DialogUndefined,
     deletion |-> "none"]

\* The values of editingConnectionProfile: null, undefined once the
\* property is deleted, or a connection profile.
Null == [t |-> "null", profile |-> NoProfile]
Deleted == [t |-> "undefined", profile |-> NoProfile]
Editing(connectionProfile) == [t |-> "object", profile |-> connectionProfile]

\* Neither canDeploy nor deployNetwork has been called.
NotDeploying ==
    [fn |-> "none", connectionProfileRef |-> <<>>, returned |-> FALSE]

\* No changeIdentity has been called.
NotChanging == [cardRef |-> 0, businessNetworkName |-> JSUndefined,
                step |-> "none", failed |-> "none", promise |-> "none"]

\* The component and the card store after construction.
Constructed ==
    /\ identityCards = <<>>
    /\ idCards = <<>>
    /\ connectionProfileNames = <<>>
    /\ connectionProfiles = <<>>
    /\ idCardRefs = <<>>
    /\ connectionProfileRefs = <<>>
    /\ comparisons = <<>>
    /\ loadPromise = "none"
    /\ engine \in Engines
    /\ previous = <<"none", fields>>
    /\ pending = 0
    /\ thrown = "none"
    /\ serviceCalls = <<>>
    /\ removing = NotRemoving
    /\ showSubScreen = FALSE
    /\ showDeployNetwork = FALSE
    /\ creatingIdCard = FALSE
    /\ editingConnectionProfile = Null
    /\ deploying = NotDeploying
    /\ changing = NotChanging
    /\ loggedIn = FALSE
    /\ route = <<>>
    /\ scenario = <<>>
    /\ position = 0
    /\ caught = <<>>
    /\ verdict = "none"

Init ==
    /\ pool \in Pools
    /\ Constructed

\* IdentityCardService.addIdentityCard: the store with the card under a new
\* card reference.
addIdentityCard(store, card) ==
    LET used == { store[i][1] : i \in DOMAIN store }
        cardRef == CHOOSE r \in 1..(Len(store) + 1) :
                       r \notin used /\ \A q \in 1..(r - 1) : q \in used
    IN  Append(store, <<cardRef, card>>)

\* The callback of loadIdentityCards, run on the cards that getIdentityCards
\* resolved with.
loadIdentityCardsThen(cards) ==
    /\ \A i \in DOMAIN cards : cards[i][2].connectionProfile # NoProfile
    /\ \E mapped \in { mapCardRefs(cards, Len(cards)) } :
       \E newCardRefs \in { reduce(mapped.pairs, Len(mapped.pairs)) } :
       \E calls \in { sortCalls(cards, newCardRefs) } :
       \E sortedCardRefs \in
              sortCardRefs(cards, newCardRefs, Len(newCardRefs)),
          sortedProfiles \in orderProfiles(mapped.names) :
           /\ idCards' = cards
           /\ connectionProfileNames' = mapped.names
           /\ connectionProfiles' = mapped.profiles
           /\ idCardRefs' = sortedCardRefs
           /\ connectionProfileRefs' = sortedProfiles
           /\ comparisons' = calls
           /\ loadPromise' = "resolved"
           /\ previous' = <<loadPromise, fields>>

\* loadIdentityCards, as called by ngOnInit, finishedDeploying and
\* finishedCardCreation: getIdentityCards resolves with the cards of the
\* store and the callback runs to its end.
loadIdentityCards ==
    /\ loadIdentityCardsThen(identityCards)
    /\ serviceCalls' = <<>>
    /\ UNCHANGED <<pool, identityCards, engine, pending, thrown, removing,
                   subScreen, deploying, login, harness>>

\* importIdentity with a card from the drawer: the card is added to the
\* store, then the cards are loaded again.
importIdentity(card) ==
    /\ Len(identityCards) < MaxCards
    /\ identityCards' = addIdentityCard(identityCards, card)
    /\ loadIdentityCardsThen(identityCards')
    /\ \E cardRef \in { identityCards'[Len(identityCards')][1] } :
           serviceCalls' =
               <<Call("drawerService.open", 0, "ImportIdentityComponent"),
                 Call("addIdentityCard", cardRef, ""),
                 Call("successStatus$.next", cardRef, "ID Card imported"),
                 Call("loadIdentityCards", 0, "")>>
    /\ UNCHANGED <<pool, engine, pending, thrown, removing, subScreen,
                   deploying, login, harness>>

Next ==
    \/ \E card \in pool : importIdentity(card)
    \/ loadIdentityCards

Spec == Init /\ [][Next]_vars

(***************************************************************************)
(* loadIdentityCards with its failures, invocations that overlap           *)
(***************************************************************************)
\* Largest number of getIdentityCards promises that are not yet settled.
MaxPending == 2

\* The errors loadIdentityCards can meet: getIdentityCards rejects, or the
\* callback reads the type of an undefined connection profile.
FetchError == "Error: getIdentityCards"
ProfileError == "TypeError: connectionProfile is undefined"

\* A card of the default web profile, one of profile "A" and one without
\* connection profile.
FailurePool ==
    { IdCard([type |-> TypeWeb, name |-> NameDefault], NetworkN,
             JSArray(<<>>), JSString(<<97>>)),
      IdCard(ProfileA, NetworkN, JSArray(<<>>), JSString(<<97>>)),
      IdCard(NoProfile, NetworkN, JSArray(<<>>), JSString(<<97>>)) }

\* loadIdentityCards without its catch: the promise is rejected with error.
loadIdentityCardsUncaught(log, error) ==
    /\ serviceCalls' = log
    /\ loadPromise' = "rejected"

\* .catch((error) => { this.alertService.errorStatus$.next(error); }): the
\* promise that loadIdentityCards returned is resolved.
loadIdentityCardsCatch(log, error) ==
    /\ serviceCalls' = Append(log, Call("errorStatus$.next", 0, error))
    /\ loadPromise' = "resolved"

\* The callback of loadIdentityCards on cards of which the i-th is the first
\* without connection profile: the fields assigned before the map callback
\* throws on that card are assigned, the others are not.
loadIdentityCardsThenThrows(cards, log) ==
    \E i \in DOMAIN cards :
        /\ cards[i][2].connectionProfile = NoProfile
        /\ \A k \in 1..(i - 1) : cards[k][2].connectionProfile # NoProfile
        /\ \E mapped \in { mapCardRefs(cards, i - 1) } :
               /\ idCards' = cards
               /\ connectionProfileNames' = mapped.names
               /\ connectionProfiles' = mapped.profiles
        /\ UNCHANGED <<idCardRefs, connectionProfileRefs, comparisons>>
        /\ previous' = <<loadPromise, fields>>
        /\ thrown' = ProfileError
        /\ loadIdentityCardsCatch(log, ProfileError)

\* loadIdentityCards is called (by ngOnInit, finishedDeploying or
\* finishedCardCreation): getIdentityCards is called and has not settled.
callLoadIdentityCards ==
    /\ pending < MaxPending
    /\ pending' = pending + 1
    /\ UNCHANGED <<pool, identityCards, fields, comparisons, loadPromise,
                   engine, previous, thrown, serviceCalls, removing,
                   subScreen, deploying, login, harness>>

\* importIdentity up to its call of loadIdentityCards: the card is added to
\* the store, then getIdentityCards is called and has not settled.
importIdentityAdds(card) ==
    /\ Len(identityCards) < MaxCards
    /\ pending < MaxPending
    /\ identityCards' = addIdentityCard(identityCards, card)
    /\ pending' = pending + 1
    /\ UNCHANGED <<pool, fields, comparisons, loadPromise, engine, previous,
                   thrown, serviceCalls, removing, subScreen, deploying,
                   login, harness>>

\* getIdentityCards resolves with the cards of the store and the callback
\* of loadIdentityCards runs, to its end or to the exception.
getIdentityCardsResolves ==
    /\ pending > 0
    /\ pending' = pending - 1
    /\ \/ /\ loadIdentityCardsThen(identityCards)
          /\ thrown' = "none"
          /\ serviceCalls' = <<>>
       \/ loadIdentityCardsThenThrows(identityCards, <<>>)
    /\ UNCHANGED <<pool, identityCards, engine, removing, subScreen,
                   deploying, login, harness>>

\* getIdentityCards rejects: the callback does not run.
getIdentityCardsRejects ==
    /\ pending > 0
    /\ pending' = pending - 1
    /\ thrown' = FetchError
    /\ loadIdentityCardsCatch(<<>>, FetchError)
    /\ UNCHANGED <<pool, identityCards, fields, comparisons, engine, previous,
                   removing, subScreen, deploying, login, harness>>

AsyncInit ==
    /\ pool = FailurePool
    /\ Constructed

AsyncNext ==
    \/ callLoadIdentityCards
    \/ \E card \in pool : importIdentityAdds(card)
    \/ getIdentityCardsResolves
    \/ getIdentityCardsRejects

AsyncSpec == AsyncInit /\ [][AsyncNext]_vars

(***************************************************************************)
(* LoginComponent.removeIdentity                                           *)
(***************************************************************************)
\* A card of the default web profile and a card of profile "A".
RemovePool ==
    { IdCard([type |-> TypeWeb, name |-> NameDefault], NetworkN,
             JSArray(<<>>), JSString(<<97>>)),
      IdCard(ProfileA, NetworkN, JSArray(<<>>), JSString(<<98>>)) }

\* What the confirmation dialog resolves with, and the reasons it is
\* dismissed with: none, the backdrop (0), the escape key (1), another
\* number and an error.
DialogResults == { DialogBoolean(TRUE), DialogBoolean(FALSE), DialogUndefined }
DismissReasons ==
    { DialogUndefined, DialogNumber(0), DialogNumber(1), DialogNumber(2),
      DialogError("Error: dismissed") }
DeleteError == "Error: deleteIdentityCard"

\* IdentityCardService.deleteIdentityCard: the store without the card.
deleteIdentityCard(store, cardRef) ==
    SelectSeq(store, LAMBDA entry : entry[1] # cardRef)

\* No dialog of removeIdentity is open and no deletion is in progress.
NoDialog == removing.dialog # "open" /\ removing.deletion # "pending"

\* removeIdentity(cardRef) up to modalService.open: the name of the card is
\* read from idCards and the confirmation dialog is opened.
removeIdentity(cardRef) ==
    /\ NoDialog
    /\ MapHas(idCards, cardRef)
    /\ removing' = [cardRef |-> cardRef, dialog |-> "open",
                    value |-> DialogUndefined, deletion |-> "none"]
    /\ serviceCalls' = <<Call("modalService.open", 0, "DeleteComponent")>>
    /\ UNCHANGED <<pool, identityCards, fields, comparisons, loadPromise,
                   engine, previous, pending, thrown, subScreen, deploying,
                   login, harness>>

\* The test of the dialog's result: always true.
confirmedAlways(result) == TRUE

\* if (result)
confirmed(result) == DialogTruthy(result)

\* confirmModalRef.result resolves: with a truthy result the busy status is
\* set and deleteIdentityCard is called.
confirmResolves(result) ==
    /\ removing.dialog = "open"
    /\ IF confirmed(result)
       THEN /\ removing' = [removing EXCEPT !.dialog = "resolved",
                                            !.value = result,
                                            !.deletion = "pending"]
            /\ serviceCalls' =
                   serviceCalls \o
                   <<Call("busyStatus$.next", 0, "Removing ID card"),
                     Call("deleteIdentityCard", removing.cardRef, "")>>
       ELSE /\ removing' = [removing EXCEPT !.dialog = "resolved",
                                            !.value = result]
            /\ UNCHANGED serviceCalls
    /\ UNCHANGED <<pool, identityCards, fields, comparisons, loadPromise,
                   engine, previous, pending, thrown, subScreen, deploying,
                   login, harness>>

\* if (reason && reason !== 1)
reported(reason) == DialogTruthy(reason) /\ reason # DialogNumber(1)

\* confirmModalRef.result is rejected: the dialog was dismissed.
confirmDismissed(reason) ==
    /\ removing.dialog = "open"
    /\ removing' = [removing EXCEPT !.dialog = "dismissed", !.value = reason]
    /\ IF reported(reason)
       THEN serviceCalls' =
                serviceCalls \o
                <<Call("busyStatus$.next", 0, "null"),
                  Call("errorStatus$.next", 0, reason.s)>>
       ELSE UNCHANGED serviceCalls
    /\ UNCHANGED <<pool, identityCards, fields, comparisons, loadPromise,
                   engine, previous, pending, thrown, subScreen, deploying,
                   login, harness>>

\* deleteIdentityCard resolves: the busy status is cleared, the success is
\* shown and loadIdentityCards runs on the cards that are left.
deleteIdentityCardResolves ==
    /\ removing.deletion = "pending"
    /\ removing' = [removing EXCEPT !.deletion = "resolved"]
    /\ identityCards' = deleteIdentityCard(identityCards, removing.cardRef)
    /\ serviceCalls' =
           serviceCalls \o
           <<Call("busyStatus$.next", 0, "null"),
             Call("successStatus$.next", 0, "ID Card Removed"),
             Call("loadIdentityCards", 0, "")>>
    /\ loadIdentityCardsThen(identityCards')
    /\ thrown' = "none"
    /\ UNCHANGED <<pool, engine, pending, subScreen, deploying, login,
                   harness>>

\* deleteIdentityCard rejects: the busy status is cleared and the error is
\* shown.
deleteIdentityCardRejects ==
    /\ removing.deletion = "pending"
    /\ removing' = [removing EXCEPT !.deletion = "rejected"]
    /\ serviceCalls' =
           serviceCalls \o
           <<Call("busyStatus$.next", 0, "null"),
             Call("errorStatus$.next", 0, DeleteError)>>
    /\ UNCHANGED <<pool, identityCards, fields, comparisons, loadPromise,
                   engine, previous, pending, thrown, subScreen, deploying,
                   login, harness>>

RemoveInit ==
    /\ pool = RemovePool
    /\ Constructed

\* The dialog and the busy status cover the page: no card is imported while
\* one of them is shown.
RemoveNext ==
    \/ \E card \in pool : NoDialog /\ importIdentity(card)
    \/ \E cardRef \in 1..MaxCards : removeIdentity(cardRef)
    \/ \E result \in DialogResults : confirmResolves(result)
    \/ \E reason \in DismissReasons : confirmDismissed(reason)
    \/ deleteIdentityCardResolves
    \/ deleteIdentityCardRejects

RemoveSpec == RemoveInit /\ [][RemoveNext]_vars

(***************************************************************************)
(* The sub-screens, canDeploy and deployNetwork                            *)
(***************************************************************************)
\* Cards of profile "A" for a peer administrator and for a channel
\* administrator, and a card of profile "a" with both roles.
ScreenPool ==
    { IdCard(ProfileA, NetworkN, JSArray(<<PeerAdmin>>), JSString(<<97>>)),
      IdCard(ProfileA, NetworkN, JSArray(<<ChannelAdmin>>), JSString(<<97>>)),
      IdCard([type |-> TypeHlfv1, name |-> <<97>>], NetworkN,
             JSArray(<<PeerAdmin, ChannelAdmin>>), JSString(<<97>>)) }

\* The card has the role among its roles.
HasRole(card, role) ==
    /\ card.roles.t = "array"
    /\ \E i \in DOMAIN card.roles.a : card.roles.a[i] = role

\* IdentityCardService.getIdentityCardRefsWithProfileAndRole: the references
\* of the cards of the store that have this connection profile and role.
getIdentityCardRefsWithProfileAndRole(store, connectionProfileRef, role) ==
    SelectSeq(MapKeys(store),
              LAMBDA cardRef :
                  /\ getQualifiedProfileName(
                         MapGet(store, cardRef).connectionProfile) =
                     connectionProfileRef
                  /\ HasRole(MapGet(store, cardRef), role))

\* arr[0] of an array of card references; 0 stands for undefined.
First(arr) == IF arr = <<>> THEN 0 ELSE arr[1]

\* What canDeploy returns: !cardRef is true of undefined only, a card
\* reference being a string that is not empty.
canDeployReturns(store, connectionProfileRef) ==
    LET peerCardRef ==
            First(getIdentityCardRefsWithProfileAndRole(
                      store, connectionProfileRef, PeerAdmin))
        channelCardRef ==
            First(getIdentityCardRefsWithProfileAndRole(
                      store, connectionProfileRef, ChannelAdmin))
    IN  IF peerCardRef = 0 THEN FALSE
        ELSE IF channelCardRef = 0 THEN FALSE
        ELSE TRUE

canDeploy(connectionProfileRef) ==
    /\ deploying' = [fn |-> "canDeploy",
                     connectionProfileRef |-> connectionProfileRef,
                     returned |->
                         canDeployReturns(identityCards, connectionProfileRef)]
    /\ serviceCalls' =
           <<Call("getIdentityCardRefsWithProfileAndRole",
                  First(getIdentityCardRefsWithProfileAndRole(
                            identityCards, connectionProfileRef, PeerAdmin)),
                  "PeerAdmin")>>
    /\ UNCHANGED <<pool, identityCards, fields, comparisons, loadPromise,
                   engine, previous, pending, thrown, removing, subScreen,
                   login, harness>>

deployNetwork(connectionProfileRef) ==
    /\ \E peerCardRef \in
              { First(getIdentityCardRefsWithProfileAndRole(
                          identityCards, connectionProfileRef, PeerAdmin)) } :
           serviceCalls' =
               <<Call("getIdentityCardRefsWithProfileAndRole", peerCardRef,
                      "PeerAdmin"),
                 Call("setCurrentIdentityCard", peerCardRef, "")>>
    /\ showSubScreen' = TRUE
    /\ showDeployNetwork' = TRUE
    /\ deploying' = [fn |-> "deployNetwork",
                     connectionProfileRef |-> connectionProfileRef,
                     returned |-> FALSE]
    /\ UNCHANGED <<pool, identityCards, fields, comparisons, loadPromise,
                   engine, previous, pending, thrown, removing,
                   creatingIdCard, editingConnectionProfile, login, harness>>

editConnectionProfile(connectionProfile) ==
    /\ showSubScreen' = TRUE
    /\ editingConnectionProfile' = Editing(connectionProfile)
    /\ serviceCalls' = <<>>
    /\ UNCHANGED <<pool, identityCards, fields, comparisons, loadPromise,
                   engine, previous, pending, thrown, removing,
                   showDeployNetwork, creatingIdCard, deploying, login,
                   harness>>

\* The assignments of closeSubView.
closeSubViewAssigns ==
    /\ showSubScreen' = FALSE
    /\ showDeployNetwork' = FALSE
    /\ creatingIdCard' = FALSE
    /\ editingConnectionProfile' = Deleted

closeSubView ==
    /\ closeSubViewAssigns
    /\ serviceCalls' = <<>>
    /\ UNCHANGED <<pool, identityCards, fields, comparisons, loadPromise,
                   engine, previous, pending, thrown, removing, deploying,
                   login, harness>>

createIdCard ==
    /\ showSubScreen' = TRUE
    /\ creatingIdCard' = TRUE
    /\ serviceCalls' = <<>>
    /\ UNCHANGED <<pool, identityCards, fields, comparisons, loadPromise,
                   engine, previous, pending, thrown, removing,
                   showDeployNetwork, editingConnectionProfile, deploying,
                   login, harness>>

\* finishedCardCreation(event): with a truthy event the cards are loaded
\* again after the sub-screen is closed.
finishedCardCreation(event) ==
    /\ closeSubViewAssigns
    /\ IF event
       THEN /\ loadIdentityCardsThen(identityCards)
            /\ serviceCalls' = <<Call("loadIdentityCards", 0, "")>>
       ELSE /\ serviceCalls' = <<>>
            /\ UNCHANGED <<fields, comparisons, loadPromise, previous>>
    /\ UNCHANGED <<pool, identityCards, engine, pending, thrown, removing,
                   deploying, login, harness>>

finishedDeploying ==
    /\ showSubScreen' = FALSE
    /\ showDeployNetwork' = FALSE
    /\ loadIdentityCardsThen(identityCards)
    /\ serviceCalls' = <<Call("loadIdentityCards", 0, "")>>
    /\ UNCHANGED <<pool, identityCards, engine, pending, thrown, removing,
                   creatingIdCard, editingConnectionProfile, deploying, login,
                   harness>>

ScreenInit ==
    /\ pool = ScreenPool
    /\ Constructed

ScreenNext ==
    \/ \E card \in pool : importIdentity(card)
    \/ \E i \in DOMAIN connectionProfileNames :
           \/ canDeploy(connectionProfileNames[i][1])
           \/ deployNetwork(connectionProfileNames[i][1])
    \/ \E i \in DOMAIN connectionProfiles :
           editConnectionProfile(connectionProfiles[i][2])
    \/ closeSubView
    \/ createIdCard
    \/ \E event \in BOOLEAN : finishedCardCreation(event)
    \/ finishedDeploying

ScreenSpec == ScreenInit /\ [][ScreenNext]_vars

(***************************************************************************)
(* LoginComponent.changeIdentity                                           *)
(***************************************************************************)
\* Cards of one connection profile, one with the business network "n" and
\* one without business network.
LoginPool ==
    { IdCard(ProfileA, NetworkN, JSArray(<<>>), JSString(<<97>>)),
      IdCard(ProfileA, JSUndefined, JSArray(<<>>), JSString(<<98>>)) }

\* The step of changeIdentity whose promise is rejected, and the error.
Rejection(step) == "Error: " \o step

\* No promise of a changeIdentity is outstanding.
NoChange == changing.step \in { "none", "done" }

\* changeIdentity(cardRef) up to the call of setCurrentIdentityCard: the
\* business network name is read from the card that idCards holds.
changeIdentity(cardRef) ==
    /\ NoChange
    /\ MapHas(idCards, cardRef)
    /\ changing' = [cardRef |-> cardRef,
                    businessNetworkName |->
                        MapGet(idCards, cardRef).businessNetworkName,
                    step |-> "setCurrentIdentityCard", failed |-> "none",
                    promise |-> "pending"]
    /\ serviceCalls' = <<Call("setCurrentIdentityCard", cardRef, "")>>
    /\ UNCHANGED <<pool, identityCards, fields, comparisons, loadPromise,
                   engine, previous, pending, thrown, removing, subScreen,
                   deploying, loggedIn, route, harness>>

\* .catch((error) => { this.alertService.errorStatus$.next(error); }) on
\* the rejection of a step: the promise of changeIdentity is resolved.
changeIdentityCatch(step) ==
    /\ changing' = [changing EXCEPT !.step = "done", !.failed = step,
                                    !.promise = "resolved"]
    /\ serviceCalls' = Append(serviceCalls,
                              Call("errorStatus$.next", 0, Rejection(step)))

\* setCurrentIdentityCard resolves and setLoggedIn(true) and router.navigate
\* follow at once, without ensureConnected.
setCurrentIdentityCardResolvesAndLogsIn ==
    /\ changing.step = "setCurrentIdentityCard"
    /\ changing' = [changing EXCEPT !.step = "navigate"]
    /\ loggedIn' = TRUE
    /\ route' = <<"editor">>
    /\ serviceCalls' = serviceCalls \o <<Call("setLoggedIn", 0, "true"),
                                          Call("navigate", 0, "editor")>>
    /\ UNCHANGED <<pool, identityCards, fields, comparisons, loadPromise,
                   engine, previous, pending, thrown, removing, subScreen,
                   deploying, harness>>

\* setCurrentIdentityCard resolves: ensureConnected is called with the
\* business network name.
setCurrentIdentityCardResolves ==
    /\ changing.step = "setCurrentIdentityCard"
    /\ changing' = [changing EXCEPT !.step = "ensureConnected"]
    /\ serviceCalls' = Append(serviceCalls,
                              Call("ensureConnected", changing.cardRef, ""))
    /\ UNCHANGED <<pool, identityCards, fields, comparisons, loadPromise,
                   engine, previous, pending, thrown, removing, subScreen,
                   deploying, loggedIn, route, harness>>

\* ensureConnected resolves: setLoggedIn(true), then router.navigate.
ensureConnectedResolves ==
    /\ changing.step = "ensureConnected"
    /\ changing' = [changing EXCEPT !.step = "navigate"]
    /\ loggedIn' = TRUE
    /\ route' = <<"editor">>
    /\ serviceCalls' = serviceCalls \o <<Call("setLoggedIn", 0, "true"),
                                          Call("navigate", 0, "editor")>>
    /\ UNCHANGED <<pool, identityCards, fields, comparisons, loadPromise,
                   engine, previous, pending, thrown, removing, subScreen,
                   deploying, harness>>

\* router.navigate resolves, and with it the promise of changeIdentity.
navigateResolves ==
    /\ changing.step = "navigate"
    /\ changing' = [changing EXCEPT !.step = "done", !.promise = "resolved"]
    /\ UNCHANGED <<pool, identityCards, fields, comparisons, loadPromise,
                   engine, previous, pending, thrown, serviceCalls, removing,
                   subScreen, deploying, loggedIn, route, harness>>

\* The promise of the step that is outstanding is rejected.
stepRejects ==
    /\ ~NoChange
    /\ changeIdentityCatch(changing.step)
    /\ UNCHANGED <<pool, identityCards, fields, comparisons, loadPromise,
                   engine, previous, pending, thrown, removing, subScreen,
                   deploying, loggedIn, route, harness>>

LoginInit ==
    /\ pool = LoginPool
    /\ Constructed

\* The cards are imported while no changeIdentity is in progress.
LoginNext ==
    \/ \E card \in pool : NoChange /\ importIdentity(card)
    \/ \E cardRef \in 1..MaxCards : changeIdentity(cardRef)
    \/ setCurrentIdentityCardResolves
    \/ ensureConnectedResolves
    \/ navigateResolves
    \/ stepRejects

LoginSpec == LoginInit /\ [][LoginNext]_vars

(***************************************************************************)
(* The scenario runner: runCucumberTest and the steps about errors         *)
(***************************************************************************)
\* Largest number of steps of a scenario before its expectation.
MaxSteps == 3

\* A step that acts on the business network and raises an error with the
\* message raises ("" when it raises none), and a step 'I should get an
\* error', with ' matching /regex/' when regex is not "".
Action(raises) == [kind |-> "action", raises |-> raises, regex |-> ""]
Expectation(regex) == [kind |-> "expectation", raises |-> "", regex |-> regex]

\* The steps of the scenarios of 'error handling': an asset is added, an
\* asset is added that exists already, an error is expected.
AddsAsset == Action("")
AddsAssetAgain == Action("asset already exists")

\* The scenarios of the tests of 'error handling' and the value each test
\* expects runCucumberTest to resolve with.
ErrorHandlingTests ==
    { [feature |-> <<AddsAsset, AddsAssetAgain>>, resolves |-> "false"],
      [feature |-> <<AddsAsset, AddsAssetAgain, Expectation("")>>,
       resolves |-> "true"],
      [feature |-> <<AddsAsset, AddsAssetAgain, AddsAssetAgain,
                     Expectation("")>>,
       resolves |-> "false"],
      [feature |-> <<AddsAsset, Expectation("")>>, resolves |-> "false"],
      [feature |-> <<AddsAsset, AddsAssetAgain, Expectation(".*")>>,
       resolves |-> "true"],
      [feature |-> <<AddsAsset, AddsAssetAgain,
                     Expectation("blah blah blah")>>,
       resolves |-> "false"] }

\* The steps of the scenarios that are run, and the scenarios: at most
\* MaxSteps steps that act, then at most one expectation.
ActionSteps == { AddsAsset, AddsAssetAgain, Action("blah blah blah") }
Expectations ==
    { <<>>, <<Expectation("")>>, <<Expectation(".*")>>,
      <<Expectation("blah blah blah")>> }
Features ==
    { steps \o expectation :
        steps \in UNION { [1..n -> ActionSteps] : n \in 0..MaxSteps },
        expectation \in Expectations }

\* The regular expression is found in the message of the error.
Matches(regex, message) == regex = ".*" \/ regex = message

\* An error is expected in a scenario that has a step 'I should get an
\* error'.
ErrorExpected(feature) ==
    \E i \in DOMAIN feature : feature[i].kind = "expectation"

\* handleError that keeps every error, expected or not.
handleErrorAlwaysKeeps(errorExpected, held, message) ==
    [rethrown |-> FALSE, caught |-> Append(held, message)]

\* The error a step raised is thrown again when the scenario expects no
\* error, and kept for the expectation otherwise.
handleError(errorExpected, held, message) ==
    IF errorExpected
    THEN [rethrown |-> FALSE, caught |-> Append(held, message)]
    ELSE [rethrown |-> TRUE, caught |-> held]

\* 'I should get an error': exactly one error has been caught and its
\* message matches the regular expression, when one is given.
testError(held, regex) ==
    /\ Len(held) = 1
    /\ (regex = "" \/ Matches(regex, held[1]))

\* The variables of the component and of the card store.
component == <<pool, identityCards, fields, comparisons, loadPromise, engine,
               previous, pending, thrown, serviceCalls, removing, subScreen,
               deploying, login>>

\* runCucumberTest(featureSource): the feature is parsed and the runtime is
\* started.
runCucumberTest(featureSource) ==
    /\ verdict # "running"
    /\ scenario' = featureSource
    /\ position' = 0
    /\ caught' = <<>>
    /\ verdict' = "running"
    /\ UNCHANGED component

\* The next step of the scenario runs; a step that throws fails the
\* scenario, and runtime.start() resolves with false.
stepRuns ==
    /\ verdict = "running"
    /\ position < Len(scenario)
    /\ \E step \in { scenario[position + 1] } :
           IF step.kind = "action" /\ step.raises = ""
           THEN /\ position' = position + 1
                /\ UNCHANGED <<caught, verdict>>
           ELSE IF step.kind = "action"
           THEN \E handled \in { handleError(ErrorExpected(scenario), caught,
                                              step.raises) } :
                    IF handled.rethrown
                    THEN /\ verdict' = "false"
                         /\ UNCHANGED <<position, caught>>
                    ELSE /\ caught' = handled.caught
                         /\ position' = position + 1
                         /\ UNCHANGED verdict
           ELSE IF testError(caught, step.regex)
           THEN /\ caught' = <<>>
                /\ position' = position + 1
                /\ UNCHANGED verdict
           ELSE /\ verdict' = "false"
                /\ UNCHANGED <<position, caught>>
    /\ UNCHANGED <<component, scenario>>

\* Every step has run and none has thrown: runtime.start() resolves with
\* true.
runtimeResolves ==
    /\ verdict = "running"
    /\ position = Len(scenario)
    /\ verdict' = "true"
    /\ UNCHANGED <<component, scenario, position, caught>>

HarnessInit ==
    /\ pool = {}
    /\ Constructed

HarnessNext ==
    \/ \E featureSource \in Features : runCucumberTest(featureSource)
    \/ stepRuns
    \/ runtimeResolves

HarnessSpec == HarnessInit /\ [][HarnessNext]_vars

(***************************************************************************)
(* Properties                                                              *)
(***************************************************************************)
\* A loadIdentityCards has completed.
Loaded == loadPromise = "resolved"

KeySet(m) == { m[i][1] : i \in DOMAIN m }

\* The profile reference derived from the card that idCards holds under
\* cardRef, and that card's fields.
InputCard(cardRef) == MapGet(idCards, cardRef)
ProfileRefOf(cardRef) ==
    getQualifiedProfileName(InputCard(cardRef).connectionProfile)
InputProfileRefs == { ProfileRefOf(cardRef) : cardRef \in KeySet(idCards) }

\* The display name recorded for an entry of connectionProfileRefs.
DisplayName(entry) == MapGet(connectionProfileNames, entry.s)
IsProfileRef(entry) == entry.t = "string"
IsSentinel(entry) == entry = JSString(WebDefault)

\* The position at which a profile reference was discovered.
Discovered(ref) ==
    CHOOSE i \in DOMAIN connectionProfileNames :
        connectionProfileNames[i][1] = ref

\* The order of the sort keys as the specification words it: an absent name
\* (undefined or the empty string) is smaller than any present name and equal
\* to another absent name, present names compare as strings.
NameAbsent(x) == x.t = "undefined" \/ x.s = <<>>
NameBefore(x, y) ==
    \/ NameAbsent(x) /\ ~NameAbsent(y)
    \/ ~NameAbsent(x) /\ ~NameAbsent(y) /\ StrLt(x.s, y.s)
NameEqual(x, y) == ~NameBefore(x, y) /\ ~NameBefore(y, x)

\* The lists of idCardRefs.
CardLists == { idCardRefs[i][2] : i \in DOMAIN idCardRefs }

\* C1: after loadIdentityCards completes, connectionProfileRefs is a
\* permutation of the keys of connectionProfileNames: every key exactly once
\* and nothing that is not a key.
C1_ProfileOrderIsPermutation ==
    Loaded =>
        /\ \A i \in DOMAIN connectionProfileRefs :
               /\ IsProfileRef(connectionProfileRefs[i])
               /\ connectionProfileRefs[i].s \in KeySet(connectionProfileNames)
        /\ \A key \in KeySet(connectionProfileNames) :
               Cardinality({ i \in DOMAIN connectionProfileRefs :
                               connectionProfileRefs[i] = JSString(key) }) = 1

\* C2: when a card of the input belongs to the profile 'web-$default', that
\* reference is first in connectionProfileRefs, whatever its display name
\* and the position of its discovery.
C2_SentinelFirst ==
    (Loaded /\ WebDefault \in InputProfileRefs) =>
        /\ Len(connectionProfileRefs) >= 1
        /\ connectionProfileRefs[1] = JSString(WebDefault)

\* The sentinel was discovered after another profile, one profile has a
\* smaller display name than it and one a larger, and it is first.
C2_Witness ==
    /\ Loaded
    /\ WebDefault \in InputProfileRefs
    /\ Discovered(WebDefault) > 1
    /\ \E i, j \in DOMAIN connectionProfileNames :
           /\ StrLt(connectionProfileNames[i][2], NameDefault)
           /\ StrLt(NameDefault, connectionProfileNames[j][2])
    /\ connectionProfileRefs[1] = JSString(WebDefault)

\* C3: the profile references of connectionProfileRefs other than the
\* sentinel are in non-decreasing order of display name.
C3_ProfilesSortedByName ==
    Loaded =>
        \A i, j \in DOMAIN connectionProfileRefs :
            (/\ i < j
             /\ IsProfileRef(connectionProfileRefs[i])
             /\ IsProfileRef(connectionProfileRefs[j])
             /\ ~IsSentinel(connectionProfileRefs[i])
             /\ ~IsSentinel(connectionProfileRefs[j]))
            => ~StrLt(DisplayName(connectionProfileRefs[j]),
                      DisplayName(connectionProfileRefs[i]))

\* Next to the sentinel, two profiles with different display names stand in
\* the order of their names, which is not the order of their discovery.
C3_Witness ==
    /\ Loaded
    /\ WebDefault \in InputProfileRefs
    /\ \E i, j \in DOMAIN connectionProfileRefs :
           /\ i < j
           /\ IsProfileRef(connectionProfileRefs[i])
           /\ IsProfileRef(connectionProfileRefs[j])
           /\ ~IsSentinel(connectionProfileRefs[i])
           /\ ~IsSentinel(connectionProfileRefs[j])
           /\ StrLt(DisplayName(connectionProfileRefs[i]),
                    DisplayName(connectionProfileRefs[j]))
           /\ Discovered(connectionProfileRefs[i].s)
                  > Discovered(connectionProfileRefs[j].s)

\* C4: idCardRefs partitions the card references of the input by derived
\* profile reference: a reference listed under p belongs to a card whose
\* derived profile reference is p, and every card reference of the input is
\* in exactly one list, once.
C4_CardsPartitionedByProfile ==
    Loaded =>
        /\ \A i \in DOMAIN idCardRefs :
               \A k \in DOMAIN idCardRefs[i][2] :
                   /\ MapHas(idCards, idCardRefs[i][2][k])
                   /\ ProfileRefOf(idCardRefs[i][2][k]) = idCardRefs[i][1]
        /\ \A cardRef \in KeySet(idCards) :
               Cardinality({ pos \in (DOMAIN idCardRefs) \X (1..Len(idCards)) :
                               /\ pos[2] \in DOMAIN idCardRefs[pos[1]][2]
                               /\ idCardRefs[pos[1]][2][pos[2]] = cardRef })
                   = 1

\* Three cards in two profiles: one list holds two cards.
C4_Witness ==
    /\ Loaded
    /\ Len(idCards) = 3
    /\ Len(idCardRefs) = 2
    /\ \E i \in DOMAIN idCardRefs : Len(idCardRefs[i][2]) = 2

\* The sort keys of the card that idCards holds under cardRef.
Network(cardRef) == InputCard(cardRef).businessNetworkName
Roles(cardRef) == InputCard(cardRef).roles
CardName(cardRef) == InputCard(cardRef).name

\* C5: in every list of idCardRefs the business network name is the first
\* sort key: of two cards with different business network names (absent
\* smaller than present, absent equal to absent) the one with the smaller
\* name comes first.
C5_NetworkIsPrimaryKey ==
    Loaded =>
        \A cardRefs \in CardLists :
            \A i, j \in DOMAIN cardRefs :
                i < j => ~NameBefore(Network(cardRefs[j]),
                                     Network(cardRefs[i]))

\* A card with the smaller business network name stands before a card that
\* was discovered earlier and whose roles would put it first.
C5_Witness ==
    /\ Loaded
    /\ \E cardRefs \in CardLists :
           \E i, j \in DOMAIN cardRefs :
               /\ i < j
               /\ NameBefore(Network(cardRefs[i]), Network(cardRefs[j]))
               /\ cardRefs[i] > cardRefs[j]
               /\ Roles(cardRefs[i]).t = "array"
               /\ Roles(cardRefs[j]).t = "undefined"

\* The order of roles as C6 words it: empty and absent roles are both
\* absent, non-empty roles compare by their serialization.
RolesAbsentOrEmpty(x) == x.t = "undefined" \/ x.a = <<>>
RolesBeforeAsClaimed(x, y) ==
    \/ RolesAbsentOrEmpty(x) /\ ~RolesAbsentOrEmpty(y)
    \/ /\ ~RolesAbsentOrEmpty(x)
       /\ ~RolesAbsentOrEmpty(y)
       /\ StrLt(Join(x.a), Join(y.a))

\* The order of roles of the code: absent roles before any array of roles,
\* arrays by their serialization, the empty array serialized as "".
RolesBefore(x, y) ==
    \/ x.t = "undefined" /\ y.t = "array"
    \/ x.t = "array" /\ y.t = "array" /\ StrLt(Join(x.a), Join(y.a))
RolesEqual(x, y) == x.t = y.t /\ ~RolesBefore(x, y) /\ ~RolesBefore(y, x)

\* C6 as stated: among cards with equal business network name, empty or
\* absent roles come before non-empty roles, non-empty roles are ordered by
\* serialization, and empty roles and absent roles compare as equal (so that
\* two such cards with equal names compare as 0).
C6_EmptyEqualsAbsentRoles ==
    Loaded =>
        /\ \A cardRefs \in CardLists :
               \A i, j \in DOMAIN cardRefs :
                   (i < j /\ NameEqual(Network(cardRefs[i]),
                                       Network(cardRefs[j])))
                   => ~RolesBeforeAsClaimed(Roles(cardRefs[j]),
                                            Roles(cardRefs[i]))
        /\ \A p \in DOMAIN comparisons :
               (/\ NameEqual(Network(p[1]), Network(p[2]))
                /\ RolesAbsentOrEmpty(Roles(p[1]))
                /\ RolesAbsentOrEmpty(Roles(p[2]))
                /\ NameEqual(CardName(p[1]), CardName(p[2])))
               => SortCompare(comparisons[p]) = 0

\* C6 as amended: among cards with equal business network name, absent
\* roles come before any roles sequence, the empty one included (sortIdCards
\* returns -1 for them), and roles sequences are ordered by their
\* serialization, the empty sequence first.
C6_AbsentBeforeEmptyRoles ==
    Loaded =>
        /\ \A cardRefs \in CardLists :
               \A i, j \in DOMAIN cardRefs :
                   (i < j /\ NameEqual(Network(cardRefs[i]),
                                       Network(cardRefs[j])))
                   => ~RolesBefore(Roles(cardRefs[j]), Roles(cardRefs[i]))
        /\ \A p \in DOMAIN comparisons :
               (/\ NameEqual(Network(p[1]), Network(p[2]))
                /\ Roles(p[1]).t = "undefined"
                /\ Roles(p[2]).t = "array")
               => comparisons[p] = <<-1>>

\* A card with absent roles stands before a card with empty roles of the
\* same business network that was discovered earlier and has the smaller
\* name.
C6_Witness ==
    /\ Loaded
    /\ \E cardRefs \in CardLists :
           \E i, j \in DOMAIN cardRefs :
               /\ i < j
               /\ NameEqual(Network(cardRefs[i]), Network(cardRefs[j]))
               /\ Roles(cardRefs[i]) = JSUndefined
               /\ Roles(cardRefs[j]) = JSArray(<<>>)
               /\ cardRefs[i] > cardRefs[j]
               /\ NameBefore(CardName(cardRefs[j]), CardName(cardRefs[i]))

\* C7: in every list of idCardRefs the card name is the third sort key: of
\* two cards with equal business network names and equal roles the one with
\* the smaller name comes first.
C7_NameIsThirdKey ==
    Loaded =>
        \A cardRefs \in CardLists :
            \A i, j \in DOMAIN cardRefs :
                (/\ i < j
                 /\ NameEqual(Network(cardRefs[i]), Network(cardRefs[j]))
                 /\ RolesEqual(Roles(cardRefs[i]), Roles(cardRefs[j])))
                => ~NameBefore(CardName(cardRefs[j]), CardName(cardRefs[i]))

\* C8: sortIdCards always returns a number and is a total preorder:
\* compare(a, a) is 0, compare(b, a) has the opposite sign of compare(a, b),
\* and compare(a, b) <= 0 with compare(b, c) <= 0 gives compare(a, c) <= 0.
C8_ComparatorIsTotalPreorder ==
    Loaded =>
        /\ \A p \in DOMAIN comparisons : comparisons[p] # <<>>
        /\ \A p \in DOMAIN comparisons :
               p[1] = p[2] => comparisons[p] = <<0>>
        /\ \A p \in DOMAIN comparisons :
               (SortCompare(comparisons[p]) < 0)
                   <=> (SortCompare(comparisons[<<p[2], p[1]>>]) > 0)
        /\ \A p, q \in DOMAIN comparisons :
               (/\ p[2] = q[1]
                /\ SortCompare(comparisons[p]) <= 0
                /\ SortCompare(comparisons[q]) <= 0)
               => SortCompare(comparisons[<<p[1], q[2]>>]) <= 0

\* C9: loading the empty card mapping leaves connectionProfileNames without
\* entries, connectionProfileRefs empty and idCardRefs without entries.
C9_EmptyInputEmptyResult ==
    (Loaded /\ idCards = <<>>) =>
        /\ connectionProfileNames = <<>>
        /\ Len(connectionProfileRefs) = 0
        /\ idCardRefs = <<>>

\* C10: connectionProfileNames has one entry for every profile reference
\* derived from a card of the input and no other, its value is the name of
\* that connection profile, and idCardRefs has the same keys.
C10_ProfileNamesOfInput ==
    Loaded =>
        /\ KeySet(connectionProfileNames) = InputProfileRefs
        /\ Len(connectionProfileNames) = Cardinality(InputProfileRefs)
        /\ \A cardRef \in KeySet(idCards) :
               MapGet(connectionProfileNames, ProfileRefOf(cardRef))
                   = InputCard(cardRef).connectionProfile.name
        /\ KeySet(idCardRefs) = KeySet(connectionProfileNames)
        /\ Len(idCardRefs) = Len(connectionProfileNames)

\* Three cards in two profiles: the second card of a profile finds its name
\* recorded.
C10_Witness ==
    /\ Loaded
    /\ Len(idCards) = 3
    /\ Len(connectionProfileNames) = 2
    /\ \E i, j \in DOMAIN connectionProfileNames :
           connectionProfileNames[i][2] # connectionProfileNames[j][2]

(***************************************************************************)
(* Successive invocations                                                  *)
(***************************************************************************)
\* The state the last callback found was left by a completed invocation.
PreviousLoaded == previous[1] = "resolved"
PreviousIdCards == previous[2][1]
PreviousProfileNames == previous[2][2]
PreviousCardRefs == previous[2][4]
PreviousProfileRefs == previous[2][5]

\* C12: the second of two successive loadIdentityCards on the same input
\* mapping, enumerated in the same order, leaves connectionProfileNames,
\* connectionProfileRefs and idCardRefs structurally identical to what the
\* first left.
C12_SecondCallSameResult ==
    (Loaded /\ PreviousLoaded /\ PreviousIdCards = idCards) =>
        /\ connectionProfileNames = PreviousProfileNames
        /\ connectionProfileRefs = PreviousProfileRefs
        /\ idCardRefs = PreviousCardRefs

\* Two invocations on the same three cards, two of which compare equal in
\* one list, and the same result.
C12_Witness ==
    /\ Loaded
    /\ PreviousLoaded
    /\ PreviousIdCards = idCards
    /\ Len(idCards) = 3
    /\ \E i \in DOMAIN idCardRefs :
           \E a, b \in DOMAIN idCardRefs[i][2] :
               /\ a # b
               /\ SortCompare(comparisons[<<idCardRefs[i][2][a],
                                            idCardRefs[i][2][b]>>]) = 0
    /\ idCardRefs = PreviousCardRefs
(***************************************************************************)
(* Enumeration order of the input mapping                                  *)
(***************************************************************************)
\* The entries of a Map or the elements of an array, without their order.
Entries(m) == { m[i] : i \in DOMAIN m }

\* Two cards tie under the comparison by business network name, roles and
\* name.
ThreeKeyTie(a, b) ==
    /\ NameEqual(Network(a), Network(b))
    /\ ~RolesBeforeAsClaimed(Roles(a), Roles(b))
    /\ ~RolesBeforeAsClaimed(Roles(b), Roles(a))
    /\ NameEqual(CardName(a), CardName(b))

\* Two profile references have exactly equal display names.
DisplayNameTie(a, b) ==
    /\ IsProfileRef(a)
    /\ IsProfileRef(b)
    /\ DisplayName(a) = DisplayName(b)

\* The arrays s and t hold the same elements, and two elements that are not
\* in tie (a set of pairs) stand in t as they stand in s.
SameUpToTies(s, t, tie) ==
    /\ Len(s) = Len(t)
    /\ Entries(s) = Entries(t)
    /\ \A i, j \in DOMAIN s :
           (i < j /\ <<s[i], s[j]>> \notin tie) =>
               \E k, l \in DOMAIN t : k < l /\ t[k] = s[i] /\ t[l] = s[j]

CardTies(cardRefs) ==
    { p \in Pairs(cardRefs) : ThreeKeyTie(p[1], p[2]) }
ProfileTies(profileRefs) ==
    { p \in Pairs(profileRefs) : DisplayNameTie(p[1], p[2]) }

\* C11: the result does not depend on the order in which the input mapping
\* is enumerated: on every other enumeration of the entries of idCards the
\* callback records the same profile names, and the same profile order and
\* card lists up to the order of profiles with equal display names and of
\* cards that tie on business network name, roles and name.
C11_EnumerationOrderIrrelevant ==
    Loaded =>
        \A cards \in Arrangements(idCards) :
            \A other \in aggregate(cards) :
                /\ Entries(other.profileNames) =
                       Entries(connectionProfileNames)
                /\ SameUpToTies(connectionProfileRefs, other.profileOrder,
                                ProfileTies(connectionProfileRefs))
                /\ KeySet(other.cardsByProfile) = KeySet(idCardRefs)
                /\ \A key \in KeySet(idCardRefs) :
                       SameUpToTies(MapGet(idCardRefs, key),
                                    MapGet(other.cardsByProfile, key),
                                    CardTies(MapGet(idCardRefs, key)))
(***************************************************************************)
(* Failures of loadIdentityCards                                           *)
(***************************************************************************)
\* The last loadIdentityCards met an exception.
Failed == thrown # "none"

\* C13 as stated: when loadIdentityCards fails with an exception (a card
\* whose profile reference cannot be derived, a rejected getIdentityCards),
\* the promise it returned is rejected.
C13_FailureRejectsPromise == Failed => loadPromise = "rejected"

\* C13: when loadIdentityCards fails with an exception, the exception is
\* caught inside loadIdentityCards: it is sent once to
\* alertService.errorStatus$ and the promise that loadIdentityCards returned
\* is resolved.
C13_FailureIsCaughtAndAlerted ==
    Failed =>
        /\ loadPromise = "resolved"
        /\ serviceCalls = <<Call("errorStatus$.next", 0, thrown)>>

\* The callback threw on the second card, after it recorded the profile of
\* the first; the error went to the alert service.
C13_Witness ==
    /\ thrown = ProfileError
    /\ Len(idCards) >= 2
    /\ idCards[1][2].connectionProfile # NoProfile
    /\ idCards[2][2].connectionProfile = NoProfile
    /\ Len(connectionProfileNames) = 1
    /\ loadPromise = "resolved"
    /\ serviceCalls = <<Call("errorStatus$.next", 0, ProfileError)>>
(***************************************************************************)
(* Invocations of loadIdentityCards that overlap                           *)
(***************************************************************************)
\* Every field that loadIdentityCards assigns has been assigned.
AllAssigned == connectionProfileRefs # <<>>

\* The four stored fields are what the callback assigns on one mapping, the
\* one that idCards holds.
OfOneSnapshot ==
    /\ \A i \in DOMAIN idCards : idCards[i][2].connectionProfile # NoProfile
    /\ \E result \in aggregate(idCards) :
           /\ connectionProfileNames = result.profileNames
           /\ idCardRefs = result.cardsByProfile
           /\ connectionProfileRefs = result.profileOrder

\* C18: with invocations of loadIdentityCards that overlap, idCards,
\* idCardRefs, connectionProfileNames and connectionProfileRefs are in every
\* state derived from one fetched mapping, also after an invocation that
\* failed part-way; and when no invocation is outstanding they are derived
\* from the mapping that the last invocation fetched, the cards of the store.
C18_FieldsOfOneSnapshot ==
    /\ AllAssigned => OfOneSnapshot
    /\ (AllAssigned /\ pending = 0 /\ thrown # FetchError) =>
           (idCards = identityCards /\ OfOneSnapshot)
(***************************************************************************)
(* removeIdentity                                                          *)
(***************************************************************************)
\* The handler that ran last is removeIdentity.
InRemoveIdentity ==
    serviceCalls # <<>> /\ serviceCalls[1].fn = "modalService.open"

\* The positions of the calls of fn among the calls of the handler.
CallsOf(fn) == { i \in DOMAIN serviceCalls : serviceCalls[i].fn = fn }

\* The value given to the last busyStatus$.next.
BusyStatus ==
    serviceCalls[CHOOSE i \in CallsOf("busyStatus$.next") :
                     \A k \in CallsOf("busyStatus$.next") : k <= i].value

\* C19: removeIdentity(cardRef) calls deleteIdentityCard(cardRef) only after
\* the confirmation dialog resolved with a truthy result; when the dialog
\* resolves with a falsy result or is dismissed, no card is deleted and
\* loadIdentityCards is not called, and a dismissal without reason or with
\* reason 1 sends no error; loadIdentityCards is called only after the
\* deletion succeeded; a failed deletion clears the busy status, sends the
\* error and does not call loadIdentityCards.
C19_RemoveOnlyWhenConfirmed ==
    InRemoveIdentity =>
        /\ \A i \in CallsOf("deleteIdentityCard") :
               /\ removing.dialog = "resolved"
               /\ DialogTruthy(removing.value)
               /\ serviceCalls[i].cardRef = removing.cardRef
        /\ (\/ removing.dialog = "resolved" /\ ~DialogTruthy(removing.value)
            \/ removing.dialog = "dismissed") =>
               /\ CallsOf("deleteIdentityCard") = {}
               /\ CallsOf("loadIdentityCards") = {}
               /\ MapHas(identityCards, removing.cardRef)
        /\ (/\ removing.dialog = "dismissed"
            /\ removing.value \in { DialogUndefined, DialogNumber(1) }) =>
               CallsOf("errorStatus$.next") = {}
        /\ \A i \in CallsOf("loadIdentityCards") :
               /\ removing.deletion = "resolved"
               /\ ~MapHas(identityCards, removing.cardRef)
               /\ \E k \in CallsOf("deleteIdentityCard") : k < i
        /\ removing.deletion = "rejected" =>
               /\ BusyStatus = "null"
               /\ \E i \in CallsOf("errorStatus$.next") :
                      serviceCalls[i].value = DeleteError
               /\ CallsOf("loadIdentityCards") = {}
               /\ MapHas(identityCards, removing.cardRef)

\* The dialog resolved with true, the deletion succeeded and the cards were
\* loaded again, without the card.
C19_Witness ==
    /\ InRemoveIdentity
    /\ removing.dialog = "resolved"
    /\ removing.value = DialogBoolean(TRUE)
    /\ removing.deletion = "resolved"
    /\ CallsOf("deleteIdentityCard") = {3}
    /\ CallsOf("loadIdentityCards") = {6}
    /\ ~MapHas(idCards, removing.cardRef)
    /\ Len(idCards) >= 1
(***************************************************************************)
(* Invocations with different card sets                                    *)
(***************************************************************************)
\* The last loadIdentityCards ran its callback to the end.
Completed == loadPromise = "resolved" /\ thrown = "none"

\* C14: the result is recomputed in full on every invocation: once a
\* loadIdentityCards has completed, whatever the card sets of the earlier
\* invocations, idCards is the card set this invocation was given, and
\* connectionProfileNames, connectionProfileRefs and idCardRefs hold only
\* profiles of cards of that set and references of cards of that set, each
\* under the profile of its card.
C14_RecomputedInFull ==
    Completed =>
        /\ idCards = identityCards
        /\ KeySet(connectionProfileNames) \subseteq InputProfileRefs
        /\ \A i \in DOMAIN connectionProfileRefs :
               IsProfileRef(connectionProfileRefs[i]) =>
                   connectionProfileRefs[i].s \in InputProfileRefs
        /\ \A i \in DOMAIN idCardRefs :
               /\ idCardRefs[i][1] \in InputProfileRefs
               /\ \A k \in DOMAIN idCardRefs[i][2] :
                      /\ idCardRefs[i][2][k] \in KeySet(idCards)
                      /\ ProfileRefOf(idCardRefs[i][2][k]) = idCardRefs[i][1]

\* The invocation before this one was given a card of a profile that no
\* card of this invocation has, under a reference that this invocation was
\* not given: neither is left in the fields.
C14_Witness ==
    /\ Completed
    /\ PreviousLoaded
    /\ Len(idCards) >= 1
    /\ \E key \in KeySet(PreviousProfileNames) :
           /\ key \notin InputProfileRefs
           /\ key \notin KeySet(connectionProfileNames)
           /\ key \notin KeySet(idCardRefs)
    /\ \E cardRef \in KeySet(PreviousIdCards) :
           /\ cardRef \notin KeySet(idCards)
           /\ \A cardRefs \in CardLists :
                  \A k \in DOMAIN cardRefs : cardRefs[k] # cardRef
(***************************************************************************)
(* Sub-screens                                                             *)
(***************************************************************************)
\* editingConnectionProfile holds a connection profile.
EditingProfile == editingConnectionProfile.t = "object"

\* C16: after any sequence of editConnectionProfile, createIdCard,
\* deployNetwork, closeSubView, finishedCardCreation and finishedDeploying,
\* when showSubScreen is false then showDeployNetwork and creatingIdCard are
\* false and editingConnectionProfile is unset, and at most one of the
\* three sub-views (deploy, create card, edit profile) is active.
C16_SubScreenFlagsConsistent ==
    /\ ~showSubScreen =>
           (~showDeployNetwork /\ ~creatingIdCard /\ ~EditingProfile)
    /\ Cardinality({ view \in { "deploy", "create", "edit" } :
                       \/ view = "deploy" /\ showDeployNetwork
                       \/ view = "create" /\ creatingIdCard
                       \/ view = "edit" /\ EditingProfile }) <= 1

(***************************************************************************)
(* canDeploy and deployNetwork                                             *)
(***************************************************************************)
\* The handler that ran last is canDeploy, or deployNetwork.
RanCanDeploy ==
    /\ deploying.fn = "canDeploy"
    /\ Len(serviceCalls) = 1
    /\ serviceCalls[1].fn = "getIdentityCardRefsWithProfileAndRole"
RanDeployNetwork ==
    /\ deploying.fn = "deployNetwork"
    /\ Len(serviceCalls) = 2
    /\ serviceCalls[2].fn = "setCurrentIdentityCard"

\* The store holds a card of the connection profile with the role.
StoreHolds(connectionProfileRef, role) ==
    \E i \in DOMAIN identityCards :
        /\ getQualifiedProfileName(identityCards[i][2].connectionProfile) =
           connectionProfileRef
        /\ HasRole(identityCards[i][2], role)

\* C20: canDeploy(profile) is true exactly when the store holds a card with
\* the role PeerAdmin and a card with the role ChannelAdmin for that
\* profile; and when deployNetwork(profile) shows the deploy sub-screen it
\* has given setCurrentIdentityCard the reference of a card of the store
\* that has the role PeerAdmin for that profile.
C20_DeployNeedsAdminCards ==
    /\ RanCanDeploy =>
           (deploying.returned <=>
               /\ StoreHolds(deploying.connectionProfileRef, PeerAdmin)
               /\ StoreHolds(deploying.connectionProfileRef, ChannelAdmin))
    /\ RanDeployNetwork =>
           /\ showSubScreen
           /\ showDeployNetwork
           /\ MapHas(identityCards, serviceCalls[2].cardRef)
           /\ getQualifiedProfileName(
                  MapGet(identityCards,
                         serviceCalls[2].cardRef).connectionProfile) =
              deploying.connectionProfileRef
           /\ HasRole(MapGet(identityCards, serviceCalls[2].cardRef),
                      PeerAdmin)
(***************************************************************************)
(* changeIdentity                                                          *)
(***************************************************************************)
\* The handler that ran last is changeIdentity.
InChangeIdentity ==
    serviceCalls # <<>> /\ serviceCalls[1].fn = "setCurrentIdentityCard"

\* C17: changeIdentity(cardRef) calls setLoggedIn(true) and navigates to the
\* editor only after setCurrentIdentityCard(cardRef) has succeeded and then
\* ensureConnected for the business network of that card has succeeded, in
\* that order; if one of the two fails, exactly one error is sent to the
\* alert service, setLoggedIn is not called, nothing is navigated to, and
\* the promise of changeIdentity is resolved.
C17_LoginAfterConnectedInOrder ==
    InChangeIdentity =>
        /\ serviceCalls[1].cardRef = changing.cardRef
        /\ changing.businessNetworkName =
               MapGet(idCards, changing.cardRef).businessNetworkName
        /\ \A i \in CallsOf("setLoggedIn") \cup CallsOf("navigate") :
               /\ changing.step \in { "navigate", "done" }
               /\ changing.failed \notin
                      { "setCurrentIdentityCard", "ensureConnected" }
               /\ \E k \in CallsOf("ensureConnected") :
                      /\ 1 < k
                      /\ k < i
                      /\ serviceCalls[k].cardRef = changing.cardRef
        /\ \A k \in CallsOf("ensureConnected") :
               changing.step # "setCurrentIdentityCard"
        /\ changing.failed \in
               { "setCurrentIdentityCard", "ensureConnected" } =>
               /\ Cardinality(CallsOf("errorStatus$.next")) = 1
               /\ CallsOf("setLoggedIn") = {}
               /\ CallsOf("navigate") = {}
               /\ changing.promise = "resolved"

\* ensureConnected was rejected after setCurrentIdentityCard succeeded, for
\* a card imported second: one error, no login, no navigation.
C17_Witness ==
    /\ InChangeIdentity
    /\ changing.cardRef = 2
    /\ changing.failed = "ensureConnected"
    /\ changing.promise = "resolved"
    /\ Len(serviceCalls) = 3
    /\ serviceCalls[3] =
           Call("errorStatus$.next", 0, Rejection("ensureConnected"))
    /\ ~loggedIn
(***************************************************************************)
(* Scenarios that expect errors                                            *)
(***************************************************************************)
\* The steps of the scenario that raise an error.
Raising == { i \in DOMAIN scenario : scenario[i].raises # "" }

\* The regular expression of the expectation matches the error of step i.
ExpectationMatches(i) ==
    LET regex == scenario[Len(scenario)].regex
    IN  regex = "" \/ Matches(regex, scenario[i].raises)

====
